---- MODULE Spec2Model ----
(***************************************************************************)
(* A model of the orelang language server: the chumsky lexer of            *)
(* src/src/parser.rs and the tower-lsp backend of src/src/main.rs.         *)
(*                                                                         *)
(* A source text is a sequence of characters; a character is a one-element *)
(* string.  "U+3000" stands for the IDEOGRAPHIC SPACE, a character that is *)
(* whitespace and takes three bytes in UTF-8.  Offsets are zero-based, so  *)
(* the character at offset p of src is src[p + 1].                         *)
(*                                                                         *)
(* Specifications: Spec (the server and its client), SpecParse (lexer and  *)
(* parse on every bounded text), SpecGrammar (texts written from the       *)
(* grammar), SpecTokens (semantic_tokens_full on every bounded rope and    *)
(* token list), SpecDoc (one document opened and queried), SpecAsync (the   *)
(* handler futures in flight, polled by tower-lsp in one task) and         *)
(* SpecAsyncFair (SpecAsync with fair polling).                            *)
(***************************************************************************)
EXTENDS Integers, Sequences, FiniteSets, TLC

VARIABLES
    source,                       \* the text handed to parse
    parsed,                       \* what lexer() and parse return for it
    expected,                     \* the tokens the text was written from
    state,                        \* tower-lsp's lifecycle state of the server
    publish_diagnostics_capable,  \* Backend's four fields
    rope_map,
    token_types_map,
    semantic_token_map,
    legend,                       \* the legend of the InitializeResult sent
    reply,                        \* what the latest handler returned
    client_msg,                   \* what the latest handler sent to the client
    calls,                        \* the number of requests tower-lsp has routed
    tasks,                        \* the handler futures in flight, by call number
    held,                         \* the mutexes locked across a suspension
    blocked                       \* the serving thread waits on a locked mutex

backend == <<publish_diagnostics_capable, rope_map, token_types_map, semantic_token_map>>

server == <<state, publish_diagnostics_capable, rope_map, token_types_map,
            semantic_token_map, legend, reply, client_msg>>

lexing == <<source, parsed, expected>>

executor == <<calls, tasks, held, blocked>>

vars == <<source, parsed, expected, state, publish_diagnostics_capable, rope_map,
          token_types_map, semantic_token_map, legend, reply, client_msg,
          calls, tasks, held, blocked>>

\* Longest source text of the pure-function specifications.
MaxLen == 4

\* The characters the bounded inputs are drawn from: one or two of each
\* class the lexer tells apart, a multi-byte character, an unknown one.
Chars == {"(", ")", ";", "0", "1", ".", "a", "+", " ", "\n", "U+3000", "@"}

Strings(n) == UNION {[1..k -> Chars] : k \in 0..n}

----------------------------------------------------------------------------
(* Character classes of chumsky::text and of char.                         *)

\* char::is_whitespace, which text::whitespace() (and so padded()) uses.
Whitespace == {" ", "\t", "\n", "\r", "U+3000"}

\* text::newline(): every line terminator it accepts is one character here
\* (the two-character "\r\n" is left out of Chars).
Newlines == {"\n", "\r"}

\* char::is_digit(10)
Digits == {"0", "1", "2", "3", "4", "5", "6", "7", "8", "9"}

\* text::ident(): an ASCII letter or '_' first, then ASCII letters, digits, '_'.
IdentStart == {"a", "b", "c", "_"}

IdentCont == IdentStart \cup Digits

\* one_of("+-*/=")
Operators == {"+", "-", "*", "/", "="}

\* char::len_utf8
len_utf8(c) == IF c = "U+3000" THEN 3 ELSE 1

----------------------------------------------------------------------------
(* The combinators the lexer is built from.  A parser applied at offset p  *)
(* either fails or succeeds having consumed src up to an end offset.       *)

\* filter(|c| class.contains(c)).repeated(): the longest run of class
\* characters from offset p; the offset after it.
filter_repeated(src, p, class) ==
    CHOOSE q \in p..Len(src) :
        /\ \A i \in (p + 1)..q : src[i] \in class
        /\ q = Len(src) \/ src[q + 1] \notin class

\* just(c) at offset p
just(src, p, c) == p < Len(src) /\ src[p + 1] = c

\* take_until(text::newline().or(end())): consumes up to and including the
\* first line terminator, or up to the end of input.
take_until(src, p) ==
    IF \E i \in (p + 1)..Len(src) : src[i] \in Newlines
    THEN CHOOSE i \in (p + 1)..Len(src) :
            /\ src[i] \in Newlines
            /\ \A j \in (p + 1)..(i - 1) : src[j] \notin Newlines
    ELSE Len(src)

NoMatch == [ok |-> FALSE, kind |-> "None", end |-> 0]

Match(kind, end) == [ok |-> TRUE, kind |-> kind, end |-> end]

\* just("(").map(|_| Token::LParen)
lparen(src, p) == IF just(src, p, "(") THEN Match("LParen", p + 1) ELSE NoMatch

\* just(")").map(|_| Token::RParen)
rparen(src, p) == IF just(src, p, ")") THEN Match("RParen", p + 1) ELSE NoMatch

\* just(";").then(take_until(newline.or(end))).padded(): the padding before
\* and after the comment is consumed inside the token.
comment(src, p) ==
    LET a == filter_repeated(src, p, Whitespace)
    IN  IF just(src, a, ";")
        THEN Match("Comment", filter_repeated(src, take_until(src, a + 1), Whitespace))
        ELSE NoMatch

\* Digits taken with filter(..).repeated(), which also matches no digit.
int_or_empty(src, p) == Match("Number", filter_repeated(src, p, Digits))

\* text::int(10): a non-zero digit and any digits, or a single "0".
int(src, p) ==
    IF p < Len(src) /\ src[p + 1] \in Digits \ {"0"}
    THEN Match("Number", filter_repeated(src, p + 1, Digits))
    ELSE IF just(src, p, "0") THEN Match("Number", p + 1) ELSE NoMatch

\* A number without the optional fraction.
number_no_fraction(src, p) == int(src, p)

\* int.chain(just('.').chain(text::digits(10)).or_not().flatten()): the
\* fraction is taken only when a digit follows the dot.
number(src, p) ==
    LET i == int(src, p)
    IN  IF ~i.ok THEN NoMatch
        ELSE IF just(src, i.end, ".") /\ i.end + 1 < Len(src)
                /\ src[i.end + 2] \in Digits
             THEN Match("Number", filter_repeated(src, i.end + 1, Digits))
             ELSE i

\* text::ident().or(one_of("+-*/=")).map(Token::Ident)
ident(src, p) ==
    IF p < Len(src) /\ src[p + 1] \in IdentStart
    THEN Match("Ident", filter_repeated(src, p + 1, IdentCont))
    ELSE IF p < Len(src) /\ src[p + 1] \in Operators
         THEN Match("Ident", p + 1)
         ELSE NoMatch

\* lparen.or(rparen).or(comment).or(number).or(ident): the first that matches.
token(src, p) ==
    IF lparen(src, p).ok THEN lparen(src, p)
    ELSE IF rparen(src, p).ok THEN rparen(src, p)
    ELSE IF comment(src, p).ok THEN comment(src, p)
    ELSE IF number(src, p).ok THEN number(src, p)
    ELSE ident(src, p)

\* The (Token, Span) pair map_with_span builds: Number and Ident carry the
\* characters matched, and the span is in the stream's offsets, which for a
\* &str are character indices.
Spanned(src, a, t) ==
    [kind  |-> t.kind,
     text  |-> IF t.kind \in {"Number", "Ident"} THEN SubSeq(src, a + 1, t.end) ELSE <<>>,
     start |-> a,
     end   |-> t.end]

\* token.map_with_span(..).padded().repeated() from offset p: repeated()
\* ends, successfully, at the first offset where the padded token fails.
RECURSIVE repeated(_, _)
repeated(src, p) ==
    LET a == filter_repeated(src, p, Whitespace)
        t == token(src, a)
    IN  IF ~t.ok THEN <<>>
        ELSE <<Spanned(src, a, t)>>
                \o repeated(src, filter_repeated(src, t.end, Whitespace))

lexer(src) == repeated(src, 0)

\* repeated() panics ("found Repeated combinator making no progress") when
\* an iteration of its item succeeds and leaves the stream where the
\* iteration before it did.
RECURSIVE repeated_panics(_, _)
repeated_panics(src, p) ==
    LET a    == filter_repeated(src, p, Whitespace)
        t    == token(src, a)
        next == filter_repeated(src, t.end, Whitespace)
    IN  IF ~t.ok THEN FALSE
        ELSE IF next = p THEN TRUE
        ELSE repeated_panics(src, next)

\* The offset at which repeated() ends: after the last token and the padding
\* that follows it.
lexer_end(src) ==
    LET toks == lexer(src)
    IN  filter_repeated(src, IF toks = <<>> THEN 0 ELSE toks[Len(toks)].end, Whitespace)

\* lexer().parse_recovery(source): repeated() never fails and the lexer has
\* no recovery strategy, so the output is Some(tokens) and no error is
\* reported.
parse_recovery(src) == [tokens |-> lexer(src), errs |-> <<>>]

\* The filter_map of parse: the semantic token of a lexed token, if any.
IsSemantic(t) == t.kind \in {"Comment", "Number", "Ident"}

token_type_of(t) ==
    CASE t.kind = "Comment" -> "comment"
      [] t.kind = "Number"  -> "number"
      [] t.kind = "Ident"   -> "variable"

ImCompleteSemanticToken(t) ==
    [start |-> t.start, length |-> t.end - t.start, token_type |-> token_type_of(t)]

\* The semantic tokens collected last token first.
RECURSIVE filter_map_rev(_)
filter_map_rev(tokens) ==
    IF tokens = <<>> THEN <<>>
    ELSE filter_map_rev(Tail(tokens))
         \o (IF IsSemantic(Head(tokens))
             THEN <<ImCompleteSemanticToken(Head(tokens))>> ELSE <<>>)

RECURSIVE filter_map(_)
filter_map(tokens) ==
    IF tokens = <<>> THEN <<>>
    ELSE (IF IsSemantic(Head(tokens))
          THEN <<ImCompleteSemanticToken(Head(tokens))>> ELSE <<>>)
         \o filter_map(Tail(tokens))

\* parse(source)
parse(src) ==
    LET r == parse_recovery(src)
    IN  [semantic_tokens |-> filter_map(r.tokens), parse_errors |-> r.errs]

----------------------------------------------------------------------------
(* ropey::Rope, as far as semantic_tokens_full uses it.  A rope holds the  *)
(* text; its byte offsets count len_utf8 per character.                    *)

\* The line breaks ropey recognises (one character each here).
LineBreaks == {"\n", "\r"}

Ok(v) == [ok |-> TRUE, v |-> v]

Err == [ok |-> FALSE, v |-> 0]

\* Rope::from_str(src)
from_str(src) == src

\* The byte offset of the character at character offset k.
RECURSIVE char_to_byte(_, _)
char_to_byte(rope, k) ==
    IF k = 0 THEN 0 ELSE char_to_byte(rope, k - 1) + len_utf8(rope[k])

len_bytes(rope) == char_to_byte(rope, Len(rope))

\* Rope::try_byte_to_char: the index of the character the byte belongs to
\* (the character count for the one-past-the-end byte); an error past that.
try_byte_to_char(rope, byte_idx) ==
    IF byte_idx > len_bytes(rope) THEN Err
    ELSE Ok(CHOOSE k \in 0..Len(rope) :
                /\ char_to_byte(rope, k) <= byte_idx
                /\ k = Len(rope) \/ char_to_byte(rope, k + 1) > byte_idx)

\* Rope::try_byte_to_line: the number of line breaks before the byte.
try_byte_to_line(rope, byte_idx) ==
    IF byte_idx > len_bytes(rope) THEN Err
    ELSE Ok(Cardinality({i \in 1..try_byte_to_char(rope, byte_idx).v :
                            rope[i] \in LineBreaks}))

len_lines(rope) == Cardinality({i \in 1..Len(rope) : rope[i] \in LineBreaks}) + 1

\* Rope::try_line_to_char: the character offset of the start of the line.
try_line_to_char(rope, line) ==
    IF line > len_lines(rope) THEN Err
    ELSE IF line = len_lines(rope) THEN Ok(Len(rope))
    ELSE Ok(CHOOSE k \in 0..Len(rope) :
                /\ Cardinality({i \in 1..k : rope[i] \in LineBreaks}) = line
                /\ k = 0 \/ rope[k] \in LineBreaks)

----------------------------------------------------------------------------
(* Backend (src/src/main.rs).  A HashMap is a function on its keys.        *)

None == [some |-> FALSE]

Some(v) == [some |-> TRUE, value |-> v]

insert(map, key, value) ==
    [k \in DOMAIN map \cup {key} |-> IF k = key THEN value ELSE map[k]]

NoReply == [kind |-> "none"]

NoMsg == [method |-> "none"]

\* Backend::new
New ==
    /\ publish_diagnostics_capable = FALSE
    /\ rope_map = <<>>
    /\ token_types_map = <<>>
    /\ semantic_token_map = <<>>

\* token_types.iter().enumerate().for_each(|(index, token_type)| insert):
\* a type listed twice ends with its last index.
RECURSIVE enumerate_insert(_, _, _)
enumerate_insert(map, token_types, index) ==
    IF index = Len(token_types) THEN map
    ELSE enumerate_insert(insert(map, token_types[index + 1], index),
                          token_types, index + 1)

\* The token types the server produces semantic tokens of.
Produced == {"comment", "number", "variable"}

\* An initialize that advertises only the token types the server produces.
initialize_intersected(params) ==
    LET text_document == params.text_document
        token_types ==
            IF text_document.some
            THEN IF text_document.value.semantic_tokens.some
                 THEN text_document.value.semantic_tokens.value.token_types
                 ELSE <<>>
            ELSE <<>>
        produced(ty) == ty \in Produced
    IN  /\ state = "Uninitialized"
        /\ state' = "Initialized"
        /\ IF text_document.some
           THEN /\ publish_diagnostics_capable' = text_document.value.publish_diagnostics
                /\ token_types_map' = enumerate_insert(token_types_map, token_types, 0)
           ELSE UNCHANGED <<publish_diagnostics_capable, token_types_map>>
        /\ legend' = SelectSeq(token_types, produced)
        /\ reply' = [kind |-> "InitializeResult",
                     legend |-> SelectSeq(token_types, produced)]
        /\ client_msg' = NoMsg
        /\ UNCHANGED <<rope_map, semantic_token_map>>

\* Backend::initialize.  tower-lsp routes it once, to an uninitialized server.
initialize(params) ==
    LET text_document == params.text_document
        token_types ==
            IF text_document.some
            THEN IF text_document.value.semantic_tokens.some
                 THEN text_document.value.semantic_tokens.value.token_types
                 ELSE <<>>
            ELSE <<>>
    IN  /\ state = "Uninitialized"
        /\ state' = "Initialized"
        /\ IF text_document.some
           THEN /\ publish_diagnostics_capable' = text_document.value.publish_diagnostics
                /\ token_types_map' = enumerate_insert(token_types_map, token_types, 0)
           ELSE UNCHANGED <<publish_diagnostics_capable, token_types_map>>
        /\ legend' = token_types
        /\ reply' = [kind |-> "InitializeResult", legend |-> token_types]
        /\ client_msg' = NoMsg
        /\ UNCHANGED <<rope_map, semantic_token_map>>

\* Backend::initialized
initialized ==
    /\ state = "Initialized"
    /\ reply' = NoReply
    /\ client_msg' = [method |-> "window/logMessage"]
    /\ UNCHANGED <<state, backend, legend>>

\* Backend::shutdown
shutdown ==
    /\ state = "Initialized"
    /\ state' = "ShutDown"
    /\ reply' = [kind |-> "Shutdown"]
    /\ client_msg' = NoMsg
    /\ UNCHANGED <<backend, legend>>

\* Backend::send_publish_diagnostics
send_publish_diagnostics(uri, diagnostics) ==
    client_msg' = IF publish_diagnostics_capable
                  THEN [method |-> "textDocument/publishDiagnostics",
                        uri |-> uri, diagnostics |-> diagnostics]
                  ELSE NoMsg

\* HashMap::remove
remove(map, key) == [k \in DOMAIN map \ {key} |-> map[k]]

\* A compile that stores the text and publishes without lexing it.
compile_no_lex(uri, src) ==
    /\ rope_map' = insert(rope_map, uri, from_str(src))
    /\ UNCHANGED semantic_token_map
    /\ send_publish_diagnostics(uri, <<"diagnostic message 1", "diagnostic message 2">>)

\* A compile that replaces the two maps by maps of the one document.
compile_clear(uri, src) ==
    /\ rope_map' = [k \in {uri} |-> from_str(src)]
    /\ semantic_token_map' = [k \in {uri} |-> parse(src).semantic_tokens]
    /\ send_publish_diagnostics(uri, <<"diagnostic message 1", "diagnostic message 2">>)

\* A compile that keeps the token list a document already has.
compile_or_insert(uri, src) ==
    /\ rope_map' = insert(rope_map, uri, from_str(src))
    /\ semantic_token_map' =
            IF uri \in DOMAIN semantic_token_map THEN semantic_token_map
            ELSE insert(semantic_token_map, uri, parse(src).semantic_tokens)
    /\ send_publish_diagnostics(uri, <<"diagnostic message 1", "diagnostic message 2">>)

\* Backend::compile: the two inserts and the capability test run in one poll
\* of the handler's future; only the send to the client is awaited.
compile(uri, src) ==
    /\ rope_map' = insert(rope_map, uri, from_str(src))
    /\ semantic_token_map' = insert(semantic_token_map, uri, parse(src).semantic_tokens)
    /\ send_publish_diagnostics(uri, <<"diagnostic message 1", "diagnostic message 2">>)

\* Backend::did_open
did_open(uri, text) ==
    /\ state = "Initialized"
    /\ compile(uri, text)
    /\ reply' = NoReply
    /\ UNCHANGED <<state, publish_diagnostics_capable, token_types_map, legend>>

\* A did_change that takes content_changes.first().
did_change_first(uri, content_changes) ==
    /\ state = "Initialized"
    /\ IF content_changes # <<>>
       THEN compile(uri, content_changes[1])
       ELSE /\ client_msg' = NoMsg
            /\ UNCHANGED <<rope_map, semantic_token_map>>
    /\ reply' = NoReply
    /\ UNCHANGED <<state, publish_diagnostics_capable, token_types_map, legend>>

\* Backend::did_change
did_change(uri, content_changes) ==
    /\ state = "Initialized"
    /\ IF content_changes # <<>>
       THEN compile(uri, content_changes[Len(content_changes)])
       ELSE /\ client_msg' = NoMsg
            /\ UNCHANGED <<rope_map, semantic_token_map>>
    /\ reply' = NoReply
    /\ UNCHANGED <<state, publish_diagnostics_capable, token_types_map, legend>>

\* A did_close that drops the closed document from the two maps.
did_close_forget(uri) ==
    /\ state = "Initialized"
    /\ send_publish_diagnostics(uri, <<>>)
    /\ rope_map' = remove(rope_map, uri)
    /\ semantic_token_map' = remove(semantic_token_map, uri)
    /\ reply' = NoReply
    /\ UNCHANGED <<state, publish_diagnostics_capable, token_types_map, legend>>

\* Backend::did_close
did_close(uri) ==
    /\ state = "Initialized"
    /\ send_publish_diagnostics(uri, <<>>)
    /\ reply' = NoReply
    /\ UNCHANGED <<state, backend, legend>>

\* The accumulator of the filter_map closure of semantic_tokens_full.
Acc0 == [pre_line |-> 0, pre_column |-> 0, data |-> <<>>, panicked |-> FALSE]

Panicked(acc) == [acc EXCEPT !.panicked = TRUE]

\* A token offset clamped into the rope instead of refused.
position_clamped(rope, start) ==
    LET byte_idx == IF start > len_bytes(rope) THEN len_bytes(rope) ELSE start
        line == try_byte_to_line(rope, byte_idx)
    IN  Ok([line |-> line.v,
            column |-> try_byte_to_char(rope, byte_idx).v - try_line_to_char(rope, line.v).v])

\* The three lookups of the closure: the line of the token's start offset,
\* taken as a byte offset, and its column, the character of that byte less
\* the first character of the line.  Any Err leaves the closure by `?`.
position(rope, start) ==
    LET line == try_byte_to_line(rope, start)
        line_first == try_line_to_char(rope, line.v)
        char == try_byte_to_char(rope, start)
    IN  IF ~line.ok \/ ~line_first.ok \/ ~char.ok THEN Err
        ELSE Ok([line |-> line.v, column |-> char.v - line_first.v])

\* A missing token type read as index 0.
get_or_zero(types, token_type) ==
    IF token_type \in DOMAIN types THEN Some(types[token_type]) ELSE Some(0)

\* token_types_map.get(&token.token_type)
get(types, token_type) ==
    IF token_type \in DOMAIN types THEN Some(types[token_type]) ELSE None

\* The column difference taken on every line.
delta_start_relative(delta_line, column, pre_column) == column - pre_column

\* if delta_line == 0 { column - pre_column } else { column }
delta_start_of(delta_line, column, pre_column) ==
    IF delta_line = 0 THEN column - pre_column ELSE column

\* One call of the closure.  A `?` on an Err or a missing key drops the
\* token and leaves pre_line and pre_column alone.  A usize subtraction
\* below zero panics (in a release build it wraps and the unwrap of the
\* try_into that follows panics).
closure(rope, types, acc, tok) ==
    LET pos == position(rope, tok.start)
        token_type == get(types, tok.token_type)
        delta_line == pos.v.line - acc.pre_line
        delta_start == delta_start_of(delta_line, pos.v.column, acc.pre_column)
    IN  IF acc.panicked THEN acc
        ELSE IF ~pos.ok THEN acc
        ELSE IF ~token_type.some THEN acc
        ELSE IF delta_line < 0 \/ delta_start < 0 THEN Panicked(acc)
        ELSE [pre_line |-> pos.v.line,
              pre_column |-> pos.v.column,
              data |-> Append(acc.data,
                              [delta_line |-> delta_line,
                               delta_start |-> delta_start,
                               length |-> tok.length,
                               token_type |-> token_type.value,
                               token_modifiers_bitset |-> 0]),
              panicked |-> FALSE]

\* v.iter().filter_map(closure).collect()
RECURSIVE collect(_, _, _, _)
collect(rope, types, acc, v) ==
    IF v = <<>> THEN acc
    ELSE collect(rope, types, closure(rope, types, acc, Head(v)), Tail(v))

\* The value semantic_tokens_full returns for uri.
SemanticTokensResult(ropes, types, tokens, uri) ==
    IF uri \notin DOMAIN ropes \/ uri \notin DOMAIN tokens
    THEN [kind |-> "SemanticTokens", uri |-> uri, result |-> None]
    ELSE LET acc == collect(ropes[uri], types, Acc0, tokens[uri])
         IN  IF acc.panicked THEN [kind |-> "Panic", uri |-> uri, result |-> None]
             ELSE [kind |-> "SemanticTokens", uri |-> uri, result |-> Some(acc.data)]

\* Backend::semantic_tokens_full
semantic_tokens_full(uri) ==
    /\ state = "Initialized"
    /\ reply' = SemanticTokensResult(rope_map, token_types_map, semantic_token_map, uri)
    /\ client_msg' = NoMsg
    /\ UNCHANGED <<state, backend, legend>>

----------------------------------------------------------------------------
(* SpecParse: lexer() and parse applied to every source text of at most    *)
(* MaxLen characters.  parsed holds what the two return.                   *)

NotParsed == [done |-> FALSE]

\* No handler is in flight and no mutex is locked.
Idle ==
    /\ calls = 0
    /\ tasks = <<>>
    /\ held = {}
    /\ blocked = FALSE

\* The server as constructed, before any request.
Constructed ==
    /\ Idle
    /\ state = "Uninitialized"
    /\ New
    /\ legend = <<>>
    /\ reply = NoReply
    /\ client_msg = NoMsg

InitParse ==
    /\ source \in Strings(MaxLen)
    /\ parsed = NotParsed
    /\ expected = <<>>
    /\ Constructed

Parse ==
    /\ ~parsed.done
    /\ parsed' = IF repeated_panics(source, 0)
                  THEN [done |-> TRUE, panicked |-> TRUE]
                  ELSE [done |-> TRUE, panicked |-> FALSE,
                        tokens |-> lexer(source), result |-> parse(source)]
    /\ UNCHANGED <<source, expected, server, executor>>

NextParse == Parse

SpecParse == InitParse /\ [][NextParse]_vars

Range(f) == {f[i] : i \in DOMAIN f}

\* A token of the text after offset k, at its offsets in the whole text.
Shifted(t, k) == [t EXCEPT !.start = t.start + k, !.end = t.end + k]

\* C1: when no lexer rule matches at an offset the scan reaches, every token
\* the grammar recognises after the character at that offset is in the
\* token list lexer() returns.
C1_TokensAfterInvalidCharKept ==
    parsed.done =>
        LET p == lexer_end(source)
        IN  p < Len(source) =>
                \A t \in Range(lexer(SubSeq(source, p + 2, Len(source)))) :
                    Shifted(t, p + 1) \in Range(parsed.tokens)

\* C4: the span of a Comment token, and the semantic token parse makes of
\* it, starts at the ';' and holds no line terminator.
C4_CommentSpanEndsBeforeNewline ==
    parsed.done =>
        /\ \A t \in Range(parsed.tokens) :
                t.kind = "Comment" =>
                    /\ just(source, t.start, ";")
                    /\ \A i \in (t.start + 1)..t.end : source[i] \notin Newlines
        /\ \A t \in Range(parsed.result.semantic_tokens) :
                t.token_type = "comment" =>
                    \A i \in (t.start + 1)..(t.start + t.length) : source[i] \notin Newlines

\* C8: when no lexer rule matches at an offset the scan reaches,
\* parse_errors holds an error at that offset.
C8_LexErrorRecorded ==
    parsed.done =>
        (lexer_end(source) < Len(source) =>
            \E i \in DOMAIN parsed.result.parse_errors :
                parsed.result.parse_errors[i].span.start = lexer_end(source))

\* C9: the spans of one lexer() pass lie within the source, do not overlap
\* and ascend strictly, and the semantic tokens of parse keep that order.
C9_SpansAscending ==
    parsed.done =>
        LET toks == parsed.tokens
            sem == parsed.result.semantic_tokens
        IN  /\ \A i \in DOMAIN toks :
                    /\ 0 <= toks[i].start
                    /\ toks[i].start <= toks[i].end
                    /\ toks[i].end <= Len(source)
                    /\ toks[i].end <= len_bytes(source)
            /\ \A i \in 1..(Len(toks) - 1) :
                    /\ toks[i + 1].start >= toks[i].end
                    /\ toks[i + 1].start > toks[i].start
            /\ \A i \in 1..(Len(sem) - 1) :
                    /\ sem[i + 1].start >= sem[i].start + sem[i].length
                    /\ sem[i + 1].start > sem[i].start
            /\ \A i \in DOMAIN sem : sem[i].start + sem[i].length <= Len(source)

\* A comment, padding and two more tokens were lexed.
C9_Witness ==
    /\ parsed.done
    /\ Len(parsed.tokens) = 3
    /\ parsed.tokens[1].kind = "Comment"
    /\ Len(parsed.result.semantic_tokens) = 2

IsList(x) == DOMAIN x = 1..Len(x)

\* C12: parse fails on no source text: for every text, the malformed ones
\* included, the lexer's repetition ends without a panic and parse returns
\* a ParseResult that holds a list of semantic tokens and a list of errors.
C12_ParseAlwaysReturns ==
    parsed.done =>
        /\ ~parsed.panicked
        /\ IsList(parsed.result.semantic_tokens)
        /\ IsList(parsed.result.parse_errors)

\* A malformed text, part of which was lexed, has been parsed.
C12_Witness ==
    /\ parsed.done
    /\ ~parsed.panicked
    /\ lexer_end(source) < Len(source)
    /\ parsed.result.semantic_tokens # <<>>

\* A decimal integer as text::int writes it: no leading zero.
IsInt(s) ==
    /\ s # <<>>
    /\ \A i \in 1..Len(s) : s[i] \in Digits
    /\ s[1] = "0" => Len(s) = 1

\* A decimal integer, a '.', and one or more digits.
IsDecimal(s) ==
    \E k \in 2..(Len(s) - 1) :
        /\ IsInt(SubSeq(s, 1, k - 1))
        /\ s[k] = "."
        /\ \A i \in (k + 1)..Len(s) : s[i] \in Digits

\* C13: a text that is a decimal integer, a '.', and one or more digits
\* lexes as one Number token whose text is the whole text; and in any text
\* no Number token stops at its integer part when a '.' and a digit follow.
C13_FractionInOneNumber ==
    parsed.done =>
        /\ IsDecimal(source) =>
                parsed.tokens = <<[kind |-> "Number", text |-> source,
                                   start |-> 0, end |-> Len(source)]>>
        /\ \A t \in Range(parsed.tokens) :
                (t.kind = "Number" /\ "." \notin Range(t.text)) =>
                    ~(/\ just(source, t.end, ".")
                      /\ t.end + 1 < Len(source)
                      /\ source[t.end + 2] \in Digits)

\* "1.10" has been lexed as one Number.
C13_Witness ==
    /\ parsed.done
    /\ source = <<"1", ".", "1", "0">>
    /\ Len(parsed.tokens) = 1
    /\ parsed.tokens[1].text = source

\* b is the byte offset at which a character of src starts, or its end.
is_char_boundary(src, b) == \E k \in 0..Len(src) : char_to_byte(src, k) = b

\* &src[b1..b2], for b1 and b2 on character boundaries.
ByteSlice(src, b1, b2) ==
    LET k1 == CHOOSE k \in 0..Len(src) : char_to_byte(src, k) = b1
        k2 == CHOOSE k \in 0..Len(src) : char_to_byte(src, k) = b2
    IN  SubSeq(src, k1 + 1, k2)

\* C14: the text a Number or Ident token carries is the slice of the source
\* at the token's span, the span read as a range of byte offsets.
C14_TextIsByteSliceAtSpan ==
    parsed.done =>
        \A t \in Range(parsed.tokens) :
            t.kind \in {"Number", "Ident"} =>
                /\ is_char_boundary(source, t.start)
                /\ is_char_boundary(source, t.end)
                /\ t.text = ByteSlice(source, t.start, t.end)

----------------------------------------------------------------------------
(* SpecGrammar: texts written from the grammar.  The text grows by one     *)
(* lexeme and the whitespace after it at a time and is lexed again;        *)
(* expected is the list of the tokens written.                             *)

\* Most lexemes of a text.
MaxLexemes == 3

Lexemes ==
    { [kind |-> "LParen",  chars |-> <<"(">>],
      [kind |-> "RParen",  chars |-> <<")">>],
      [kind |-> "Comment", chars |-> <<";", "a">>],
      [kind |-> "Number",  chars |-> <<"0">>],
      [kind |-> "Number",  chars |-> <<"1">>],
      [kind |-> "Number",  chars |-> <<"1", ".", "0">>],
      [kind |-> "Ident",   chars |-> <<"a">>],
      [kind |-> "Ident",   chars |-> <<"a", "1">>],
      [kind |-> "Ident",   chars |-> <<"+">>] }

Separators == {<<>>, <<" ">>, <<"\n">>}

\* Whether lexeme lx may be written right after the text so far: a comment
\* runs to the end of its line, and two atoms that would read as one are
\* kept apart by whitespace.
MayFollow(lx) ==
    LET n == Len(expected)
        last == expected[n]
        broken == source # <<>> /\ source[Len(source)] \in Newlines
        spaced == source # <<>> /\ source[Len(source)] \in Whitespace
    IN  n > 0 =>
            /\ last.kind = "Comment" => broken
            /\ (last.kind \in {"Number", "Ident"} /\ lx.chars[1] \in IdentCont) => spaced

Write(lx, sep) ==
    /\ Len(expected) < MaxLexemes
    /\ MayFollow(lx)
    /\ source' = source \o lx.chars \o sep
    /\ expected' = Append(expected,
                          [kind |-> lx.kind,
                           text |-> IF lx.kind \in {"Number", "Ident"} THEN lx.chars ELSE <<>>])
    /\ parsed' = [done |-> TRUE, tokens |-> lexer(source'), result |-> parse(source')]
    /\ UNCHANGED <<server, executor>>

InitGrammar ==
    /\ source = <<>>
    /\ parsed = [done |-> TRUE, tokens |-> lexer(<<>>), result |-> parse(<<>>)]
    /\ expected = <<>>
    /\ Constructed

NextGrammar == \E lx \in Lexemes, sep \in Separators : Write(lx, sep)

SpecGrammar == InitGrammar /\ [][NextGrammar]_vars

\* C7: a text written from parentheses, numbers, identifiers, operators,
\* comments and whitespace lexes to the tokens it was written from, in
\* order, Number and Ident with their text, and nothing for whitespace.
C7_TokensMatchGrammar ==
    /\ Len(parsed.tokens) = Len(expected)
    /\ \A i \in DOMAIN expected :
            /\ parsed.tokens[i].kind = expected[i].kind
            /\ parsed.tokens[i].text = expected[i].text

\* "(+ 1" was written, with or without the whitespace after "+".
C7_Witness ==
    /\ expected = <<[kind |-> "LParen", text |-> <<>>],
                    [kind |-> "Ident", text |-> <<"+">>],
                    [kind |-> "Number", text |-> <<"1">>]>>
    /\ parsed.tokens[3].start = 3

----------------------------------------------------------------------------
(* Spec: the server and a client that sends it requests and notifications. *)
(* tower-lsp polls the handlers of one connection in one task, so a        *)
(* handler runs without interruption up to its first pending await, which  *)
(* in every handler here is the send of its notification to the client.    *)

\* Most entries in the content_changes of one did_change.
MaxChanges == 2

Uris == {"file:///a", "file:///b"}

\* The document texts the client sends.
Texts ==
    { <<>>,
      <<"a", " ", "1">>,
      <<";", "a", "\n", "a">>,
      <<"U+3000", "a">>,
      <<"(", "@", "a">> }

SeqsUpTo(S, n) == UNION {[1..k -> S] : k \in 0..n}

\* The token_types lists of the clients: the three types the server
\* produces, some of them, one the server does not produce ("keyword"), one
\* listed twice, none.
ClientTokenTypes ==
    { <<>>,
      <<"comment", "number", "variable">>,
      <<"keyword", "variable">>,
      <<"number", "keyword", "comment">>,
      <<"variable", "comment", "variable">> }

\* InitializeParams.capabilities.text_document
InitializeParams ==
    {[text_document |-> None]}
    \cup {[text_document |-> Some([publish_diagnostics |-> pd, semantic_tokens |-> st])] :
            pd \in BOOLEAN,
            st \in {None} \cup {Some([token_types |-> tt]) : tt \in ClientTokenTypes}}

Init ==
    /\ source = <<>>
    /\ parsed = NotParsed
    /\ expected = <<>>
    /\ Constructed

Next ==
    \/ \E params \in InitializeParams : initialize(params) /\ UNCHANGED <<lexing, executor>>
    \/ initialized /\ UNCHANGED <<lexing, executor>>
    \/ shutdown /\ UNCHANGED <<lexing, executor>>
    \/ \E uri \in Uris, text \in Texts : did_open(uri, text) /\ UNCHANGED <<lexing, executor>>
    \/ \E uri \in Uris, content_changes \in SeqsUpTo(Texts, MaxChanges) :
            did_change(uri, content_changes) /\ UNCHANGED <<lexing, executor>>
    \/ \E uri \in Uris : did_close(uri) /\ UNCHANGED <<lexing, executor>>
    \/ \E uri \in Uris : semantic_tokens_full(uri) /\ UNCHANGED <<lexing, executor>>

Spec == Init /\ [][Next]_vars

\* The cumulative sums a client runs over the data of a SemanticTokens
\* result: the absolute (line, column) of every entry.
RECURSIVE Decode(_, _, _)
Decode(data, line, column) ==
    IF data = <<>> THEN <<>>
    ELSE LET l == line + Head(data).delta_line
             c == IF Head(data).delta_line = 0
                  THEN column + Head(data).delta_start
                  ELSE Head(data).delta_start
         IN  <<[line |-> l, column |-> c]>> \o Decode(Tail(data), l, c)

\* The (line, column) the rope gives for a byte offset within it.
PositionOf(rope, byte_idx) == position(rope, byte_idx).v

\* The reply to a semantic_tokens_full for a document that is stored.
Answered ==
    /\ reply.kind \in {"SemanticTokens", "Panic"}
    /\ reply.uri \in DOMAIN rope_map
    /\ reply.uri \in DOMAIN semantic_token_map

\* C5: the token_type of every emitted token is the index of its category in
\* the legend initialize returned, and the tokens emitted are exactly those
\* whose category is in that legend.
C5_TokenTypeIsLegendIndex ==
    Answered =>
        /\ reply.kind = "SemanticTokens"
        /\ reply.result.some
        /\ LET data == reply.result.value
               kept == SelectSeq(semantic_token_map[reply.uri],
                                 LAMBDA t : t.token_type \in Range(legend))
           IN  /\ Len(data) = Len(kept)
               /\ \A i \in DOMAIN data :
                    /\ data[i].token_type + 1 \in DOMAIN legend
                    /\ legend[data[i].token_type + 1] = kept[i].token_type

\* A reply that holds a token and leaves out one whose category the client
\* did not declare.
C5_Witness ==
    /\ Answered
    /\ reply.kind = "SemanticTokens"
    /\ reply.result.some
    /\ reply.result.value # <<>>
    /\ Len(reply.result.value) < Len(semantic_token_map[reply.uri])

\* C10: the token list stored for a document is the semantic tokens of the
\* text stored for it, and both maps hold the same documents.
C10_StoredTokensAreThoseOfStoredText ==
    /\ DOMAIN rope_map = DOMAIN semantic_token_map
    /\ \A uri \in DOMAIN rope_map :
            semantic_token_map[uri] = parse(rope_map[uri]).semantic_tokens

\* Both documents are stored, one with tokens and one, replaced by the empty
\* text, with none.
C10_Witness ==
    /\ DOMAIN rope_map = Uris
    /\ \E uri \in Uris : rope_map[uri] = <<>> /\ semantic_token_map[uri] = <<>>
    /\ \E uri \in Uris : Len(semantic_token_map[uri]) = 2

\* The token types the client declares in its capabilities.
ClientDeclared(params) ==
    IF params.text_document.some /\ params.text_document.value.semantic_tokens.some
    THEN params.text_document.value.semantic_tokens.value.token_types
    ELSE <<>>

\* C15 as stated: the legend initialize advertises holds no token type
\* other than comment, number and variable.
C15_LegendWithinProduced == \A i \in DOMAIN legend : legend[i] \in Produced

\* C15, amended: the legend initialize advertises, in its reply, is the
\* list of token types the client declared, whole and in the client's order
\* (the empty list when the client declared none).
C15_LegendIsClientList ==
    [][\A params \in InitializeParams :
            initialize(params) =>
                /\ legend' = ClientDeclared(params)
                /\ reply' = [kind |-> "InitializeResult",
                             legend |-> ClientDeclared(params)]]_vars

\* The server advertised a token type it never produces.
C15_Witness ==
    /\ state = "Initialized"
    /\ "keyword" \in Range(legend)
    /\ reply.kind = "InitializeResult"

----------------------------------------------------------------------------
(* SpecTokens: semantic_tokens_full as a function of the three maps it     *)
(* reads, on every rope and every ascending token list within the bounds,  *)
(* whether or not the handlers store the two together.                     *)

\* Longest rope.
MaxRope == 2

\* Largest start offset of a stored token.
MaxStart == 3

\* Most stored tokens.
MaxTokens == 3

RopeChars == {"a", "\n", "U+3000"}

StoredUri == "file:///a"

StoredTokens ==
    {[start |-> st, length |-> 1, token_type |-> ty] :
        st \in 0..MaxStart, ty \in {"comment", "number", "variable"}}

AscendingTokenLists ==
    {v \in SeqsUpTo(StoredTokens, MaxTokens) :
        \A i \in 1..(Len(v) - 1) : v[i].start < v[i + 1].start}

InitTokens ==
    /\ source = <<>>
    /\ parsed = NotParsed
    /\ expected = <<>>
    /\ Idle
    /\ state = "Initialized"
    /\ publish_diagnostics_capable = FALSE
    /\ \E rope \in UNION {[1..k -> RopeChars] : k \in 0..MaxRope} :
            rope_map = [uri \in {StoredUri} |-> rope]
    /\ \E v \in AscendingTokenLists :
            semantic_token_map = [uri \in {StoredUri} |-> v]
    /\ \E tt \in ClientTokenTypes :
            /\ legend = tt
            /\ token_types_map = enumerate_insert(<<>>, tt, 0)
    /\ reply = NoReply
    /\ client_msg = NoMsg

NextTokens ==
    \E uri \in Uris : semantic_tokens_full(uri) /\ UNCHANGED <<lexing, executor>>

SpecTokens == InitTokens /\ [][NextTokens]_vars

\* The stored tokens the closure of semantic_tokens_full lets through.
Emitted(rope, types, v) ==
    SelectSeq(v, LAMBDA t : try_byte_to_line(rope, t.start).ok
                            /\ t.token_type \in DOMAIN types)

\* C2: the data of the reply is the delta encoding of the emitted tokens:
\* the first entry is absolute, a later entry has the line difference to the
\* entry before it and the column difference on the same line or else the
\* column, and the cumulative sums give back every (line, column).
C2_DeltaEncoding ==
    Answered =>
        /\ reply.kind = "SemanticTokens"
        /\ LET rope == rope_map[reply.uri]
               data == reply.result.value
               kept == Emitted(rope, token_types_map, semantic_token_map[reply.uri])
               pos == [i \in DOMAIN kept |-> PositionOf(rope, kept[i].start)]
           IN  /\ Len(data) = Len(kept)
               /\ \A i \in DOMAIN data :
                       IF i = 1
                       THEN /\ data[i].delta_line = pos[i].line
                            /\ data[i].delta_start = pos[i].column
                       ELSE /\ data[i].delta_line = pos[i].line - pos[i - 1].line
                            /\ data[i].delta_start =
                                   IF data[i].delta_line = 0
                                   THEN pos[i].column - pos[i - 1].column
                                   ELSE pos[i].column
               /\ Decode(data, 0, 0) = pos

\* Two tokens were emitted, the second on a later line, and one was dropped.
C2_Witness ==
    /\ Answered
    /\ reply.kind = "SemanticTokens"
    /\ Len(reply.result.value) = 2
    /\ reply.result.value[2].delta_line > 0
    /\ Len(semantic_token_map[reply.uri]) > 2

\* C6: a stored token that starts past the end of the stored rope is left
\* out, the request succeeds without a panic, and the tokens within the
\* rope whose category was declared are all emitted.
C6_StaleTokenDropped ==
    Answered =>
        /\ reply.kind = "SemanticTokens"
        /\ reply.result.some
        /\ LET rope == rope_map[reply.uri]
               data == reply.result.value
               within == SelectSeq(semantic_token_map[reply.uri],
                                   LAMBDA t : t.start <= len_bytes(rope)
                                              /\ t.token_type \in DOMAIN token_types_map)
           IN  /\ Len(data) = Len(within)
               /\ \A i \in DOMAIN data :
                    /\ data[i].token_type = token_types_map[within[i].token_type]
                    /\ data[i].length = within[i].length
               /\ Decode(data, 0, 0) = [i \in DOMAIN within |-> PositionOf(rope, within[i].start)]

\* A reply with one token of a list whose other token starts past the end.
C6_Witness ==
    /\ Answered
    /\ reply.kind = "SemanticTokens"
    /\ Len(reply.result.value) = 1
    /\ Len(semantic_token_map[reply.uri]) = 2
    /\ \A i \in {1, 2} :
            semantic_token_map[reply.uri][i].token_type \in DOMAIN token_types_map
    /\ semantic_token_map[reply.uri][2].start > len_bytes(rope_map[reply.uri])

----------------------------------------------------------------------------
(* SpecDoc: one client, one document.  The client declares every token     *)
(* type, opens a document with any text of at most MaxLen characters and   *)
(* asks for its semantic tokens.                                           *)

AllTypesParams ==
    [text_document |->
        Some([publish_diagnostics |-> TRUE,
              semantic_tokens |-> Some([token_types |-> <<"comment", "number", "variable">>])])]

InitDoc ==
    /\ source \in Strings(MaxLen)
    /\ parsed = NotParsed
    /\ expected = <<>>
    /\ Constructed

NextDoc ==
    \/ initialize(AllTypesParams) /\ UNCHANGED <<lexing, executor>>
    \/ did_open(StoredUri, source) /\ UNCHANGED <<lexing, executor>>
    \/ semantic_tokens_full(StoredUri) /\ UNCHANGED <<lexing, executor>>

SpecDoc == InitDoc /\ [][NextDoc]_vars

\* The zero-based line of the character at character offset k of text.
LineOfChar(text, k) == Cardinality({i \in 1..k : text[i] \in LineBreaks})

\* The characters between the start of its line and character offset k.
ColumnOfChar(text, k) ==
    LET breaks == {i \in 1..k : text[i] \in LineBreaks}
    IN  k - (IF breaks = {} THEN 0 ELSE CHOOSE i \in breaks : \A j \in breaks : j <= i)

\* C3: the position reported for every token of the document opened is the
\* line of its first character and the number of characters before it on
\* that line (the start of a token of parse is the character offset of its
\* first character).
C3_PositionsCountCharacters ==
    Answered =>
        /\ reply.kind = "SemanticTokens"
        /\ LET text == source
               toks == parse(text).semantic_tokens
               first == [i \in DOMAIN toks |-> toks[i].start]
           IN  /\ Len(reply.result.value) = Len(toks)
               /\ Decode(reply.result.value, 0, 0) =
                    [i \in DOMAIN toks |->
                        [line |-> LineOfChar(text, first[i]),
                         column |-> ColumnOfChar(text, first[i])]]

----------------------------------------------------------------------------
(* SpecAsync: the handlers as tower-lsp runs them.  Server::serve reads    *)
(* the requests, polls the handler futures (buffer_unordered) and writes   *)
(* the output in one task, so handlers in flight interleave only where     *)
(* one awaits: a handler runs from its first poll to its first pending     *)
(* await without another handler running, and the only await of this       *)
(* Backend is the send to the client.  The mutexes are std::sync::Mutex:   *)
(* a lock() of one that is locked blocks the thread, and with it every     *)
(* future of the task.                                                     *)

\* Requests routed in a behaviour.
MaxCalls == 2

lock(m) == [op |-> "lock", mutex |-> m]

unlock(m) == [op |-> "unlock", mutex |-> m]

\* The lock() calls and guard drops of a handler up to its first await, in
\* program order.

\* A send_publish_diagnostics whose guard lives across the await.
locks_send_publish_diagnostics_held == <<lock("publish_diagnostics_capable")>>

\* send_publish_diagnostics: the guard is a temporary of the if condition,
\* dropped before the block that awaits.
locks_send_publish_diagnostics ==
    <<lock("publish_diagnostics_capable"), unlock("publish_diagnostics_capable")>>

\* compile: each guard is a temporary of its statement.
locks_compile ==
    <<lock("rope_map"), unlock("rope_map"),
      lock("semantic_token_map"), unlock("semantic_token_map")>>
    \o locks_send_publish_diagnostics

\* initialize: a temporary guard, then token_types_map to the end of the block.
locks_initialize(params) ==
    IF params.text_document.some
    THEN <<lock("publish_diagnostics_capable"), unlock("publish_diagnostics_capable"),
           lock("token_types_map"), unlock("token_types_map")>>
    ELSE <<>>

\* semantic_tokens_full: token_types_map to the end of the function; inside
\* the closure rope_map and then, when the document has a rope,
\* semantic_token_map, both to the end of the closure.
locks_semantic_tokens_full(uri) ==
    <<lock("token_types_map"), lock("rope_map")>>
    \o (IF uri \in DOMAIN rope_map
        THEN <<lock("semantic_token_map"), unlock("semantic_token_map")>>
        ELSE <<>>)
    \o <<unlock("rope_map"), unlock("token_types_map")>>

locks_of(req) ==
    CASE req.method = "did_open" -> locks_compile
      [] req.method = "did_change" ->
            IF req.content_changes # <<>> THEN locks_compile ELSE <<>>
      [] req.method = "did_close" -> locks_send_publish_diagnostics
      [] req.method = "semantic_tokens_full" -> locks_semantic_tokens_full(req.uri)

\* Running a lock program while the mutexes of others are locked: whether
\* every lock() returned, and the mutexes still locked at the end.  A lock()
\* of a mutex that is locked, by a suspended handler or by the running one,
\* never returns.
RECURSIVE run_locks(_, _, _)
run_locks(program, others, mine) ==
    IF program = <<>> THEN [ok |-> TRUE, holds |-> mine]
    ELSE LET step == Head(program)
         IN  IF step.op = "lock"
             THEN IF step.mutex \in others \cup mine
                  THEN [ok |-> FALSE, holds |-> mine]
                  ELSE run_locks(Tail(program), others, mine \cup {step.mutex})
             ELSE run_locks(Tail(program), others, mine \ {step.mutex})

\* The handler of a request, from its first poll to its first await.
handle(req) ==
    \/ req.method = "did_open" /\ did_open(req.uri, req.text)
    \/ req.method = "did_change" /\ did_change(req.uri, req.content_changes)
    \/ req.method = "did_close" /\ did_close(req.uri)
    \/ req.method = "semantic_tokens_full" /\ semantic_tokens_full(req.uri)

\* The handler reaches client.publish_diagnostics(..).await.
suspends(req) ==
    /\ publish_diagnostics_capable
    /\ \/ req.method \in {"did_open", "did_close"}
       \/ req.method = "did_change" /\ req.content_changes # <<>>

\* The future of a handler: its request, where it stands, and the mutexes
\* it keeps locked while suspended.
Future(req) == [req |-> req, pc |-> "created", holds |-> {}]

\* initialize is served alone: tower-lsp rejects every other request until
\* it has returned.
serve_initialize(params) ==
    /\ ~blocked
    /\ IF run_locks(locks_initialize(params), held, {}).ok
       THEN initialize(params) /\ UNCHANGED blocked
       ELSE blocked' = TRUE /\ UNCHANGED server
    /\ UNCHANGED <<calls, tasks, held>>

\* A request arrives: tower-lsp calls the handler and queues its future.
call(req) ==
    /\ state = "Initialized"
    /\ ~blocked
    /\ calls < MaxCalls
    /\ calls' = calls + 1
    /\ tasks' = insert(tasks, calls + 1, Future(req))
    /\ UNCHANGED <<server, held, blocked>>

\* A poll in which compile gives way to the other futures between storing
\* the text and storing its tokens.
poll_yielding(i) ==
    /\ i \in DOMAIN tasks
    /\ ~blocked
    /\ LET r        == tasks[i].req
           compiles == \/ r.method = "did_open"
                       \/ r.method = "did_change" /\ r.content_changes # <<>>
           text     == IF r.method = "did_open" THEN r.text
                       ELSE r.content_changes[Len(r.content_changes)]
           after    == IF suspends(r) THEN [tasks EXCEPT ![i].pc = "sending"]
                       ELSE remove(tasks, i)
       IN  IF compiles /\ tasks[i].pc = "created"
           THEN /\ rope_map' = insert(rope_map, r.uri, from_str(text))
                /\ tasks' = [tasks EXCEPT ![i].pc = "parsing"]
                /\ reply' = NoReply
                /\ client_msg' = NoMsg
                /\ UNCHANGED <<state, publish_diagnostics_capable, token_types_map,
                               semantic_token_map, legend>>
           ELSE IF compiles /\ tasks[i].pc = "parsing"
           THEN /\ semantic_token_map' =
                        insert(semantic_token_map, r.uri, parse(text).semantic_tokens)
                /\ send_publish_diagnostics(r.uri, <<"diagnostic message 1",
                                                     "diagnostic message 2">>)
                /\ tasks' = after
                /\ reply' = NoReply
                /\ UNCHANGED <<state, publish_diagnostics_capable, token_types_map,
                               rope_map, legend>>
           ELSE /\ tasks[i].pc = "created"
                /\ handle(r)
                /\ tasks' = after
    /\ UNCHANGED <<calls, held, blocked>>

\* The first poll of a handler's future: the handler runs to its first
\* await, or to its end, unless a lock() in it never returns.
poll(i) ==
    /\ i \in DOMAIN tasks
    /\ ~blocked
    /\ tasks[i].pc = "created"
    /\ LET r   == tasks[i].req
           run == run_locks(locks_of(r), held, {})
       IN  IF run.ok
           THEN /\ handle(r)
                /\ IF suspends(r)
                   THEN /\ tasks' = [tasks EXCEPT ![i] = [req |-> r, pc |-> "sending",
                                                         holds |-> run.holds]]
                        /\ held' = held \cup run.holds
                   ELSE /\ tasks' = remove(tasks, i)
                        /\ UNCHANGED held
                /\ UNCHANGED blocked
           ELSE /\ blocked' = TRUE
                /\ UNCHANGED <<server, tasks, held>>
    /\ UNCHANGED calls

\* The send to the client completes and the handler returns, dropping the
\* guards it held.
finish(i) ==
    /\ i \in DOMAIN tasks
    /\ ~blocked
    /\ tasks[i].pc = "sending"
    /\ tasks' = remove(tasks, i)
    /\ held' = held \ tasks[i].holds
    /\ UNCHANGED <<server, calls, blocked>>

\* The texts and lists of content changes the client sends.
AsyncTexts == {<<"a">>, <<"1", "\n", "a">>}

AsyncChanges ==
    {<<>>, <<<<"a">>>>, <<<<"a">>, <<"1", "\n", "a">>>>, <<<<"1", "\n", "a">>, <<"a">>>>}

Requests ==
    {[method |-> "did_open", uri |-> uri, text |-> text] :
        uri \in Uris, text \in AsyncTexts}
    \cup {[method |-> "did_change", uri |-> uri, content_changes |-> cc] :
            uri \in Uris, cc \in AsyncChanges}
    \cup {[method |-> m, uri |-> uri] :
            m \in {"did_close", "semantic_tokens_full"}, uri \in Uris}

\* The capabilities of a client that declares the token types: with and
\* without publishDiagnostics.
AsyncParams ==
    {[text_document |->
        Some([publish_diagnostics |-> pd,
              semantic_tokens |-> Some([token_types |-> <<"comment", "number", "variable">>])])] :
        pd \in BOOLEAN}

InitAsync ==
    /\ source = <<>>
    /\ parsed = NotParsed
    /\ expected = <<>>
    /\ Constructed

NextAsync ==
    \/ \E params \in AsyncParams : serve_initialize(params) /\ UNCHANGED lexing
    \/ \E req \in Requests : call(req) /\ UNCHANGED lexing
    \/ \E i \in 1..MaxCalls : poll(i) /\ UNCHANGED lexing
    \/ \E i \in 1..MaxCalls : finish(i) /\ UNCHANGED lexing

SpecAsync == InitAsync /\ [][NextAsync]_vars

\* The first poll of future i can be taken: ENABLED <<poll(i)>>_vars, which
\* is the guard of poll, the lifecycle state its handler requires included.
pollable(i) ==
    /\ i \in DOMAIN tasks
    /\ ~blocked
    /\ tasks[i].pc = "created"
    /\ state = "Initialized"

\* WF_vars(poll(i)), its ENABLED written as pollable(i).
fair_poll(i) ==
    []<>(~pollable(i)) \/ []<><<poll(i) /\ UNCHANGED lexing>>_vars

\* FuturesUnordered polls every future that is ready, and the client reads
\* what the server writes: a first poll, and the completion of a send, that
\* stays possible is taken.
SpecAsyncFair ==
    /\ SpecAsync
    /\ \A i \in 1..MaxCalls : fair_poll(i)
    /\ \A i \in 1..MaxCalls : WF_vars(finish(i) /\ UNCHANGED lexing)

\* The future i is polled for the first time in this step, and its handler
\* runs.
Polled(i) ==
    /\ i \in DOMAIN tasks
    /\ tasks[i].pc = "created"
    /\ i \notin DOMAIN tasks' \/ tasks'[i].pc # "created"

\* The request is an update that carries a text, and the text it carries.
HasText(req) ==
    \/ req.method = "did_open"
    \/ req.method = "did_change" /\ req.content_changes # <<>>

TextOf(req) ==
    IF req.method = "did_open" THEN req.text
    ELSE req.content_changes[Len(req.content_changes)]

\* The document is stored with the tokens of its stored text.
Lexed(ropes, tokens, uri) ==
    /\ uri \in DOMAIN ropes
    /\ uri \in DOMAIN tokens
    /\ tokens[uri] = parse(ropes[uri]).semantic_tokens

PublishDiagnostics(uri, diagnostics) ==
    [method |-> "textDocument/publishDiagnostics", uri |-> uri, diagnostics |-> diagnostics]

\* C11 as stated: when the handler of an update (open, change or close)
\* publishes the results of the update, the document has been lexed: its
\* text is stored with the tokens of that text.
C11_EveryUpdateLexes ==
    [][\A i \in 1..MaxCalls :
            (/\ Polled(i)
             /\ tasks[i].req.method \in {"did_open", "did_change", "did_close"}
             /\ client_msg'.method = "textDocument/publishDiagnostics")
            => Lexed(rope_map', semantic_token_map', tasks[i].req.uri)]_vars

\* C11, amended: the handler of a did_open, and of a did_change that has a
\* content change, lexes the whole new text and stores the text and its
\* tokens in the step in which it publishes the diagnostics of the update,
\* before the send to the client is awaited; did_close lexes nothing and
\* stores nothing.
C11_TextUpdateLexesBeforePublish ==
    [][\A i \in 1..MaxCalls :
            Polled(i) =>
                LET req == tasks[i].req
                IN  /\ HasText(req) =>
                        /\ Lexed(rope_map', semantic_token_map', req.uri)
                        /\ rope_map'[req.uri] = from_str(TextOf(req))
                        /\ IF publish_diagnostics_capable
                           THEN /\ client_msg' = PublishDiagnostics(req.uri,
                                        <<"diagnostic message 1", "diagnostic message 2">>)
                                /\ i \in DOMAIN tasks'
                                /\ tasks'[i].pc = "sending"
                           ELSE client_msg' = NoMsg
                    /\ req.method = "did_close" =>
                        UNCHANGED <<rope_map, semantic_token_map>>]_vars

\* The diagnostics of a did_change are being sent and its text is stored.
C11_Witness ==
    \E i \in DOMAIN tasks :
        /\ tasks[i].pc = "sending"
        /\ tasks[i].req.method = "did_change"
        /\ client_msg = PublishDiagnostics(tasks[i].req.uri,
                            <<"diagnostic message 1", "diagnostic message 2">>)
        /\ Lexed(rope_map, semantic_token_map, tasks[i].req.uri)

\* C16: however the handlers in flight interleave, the text and the token
\* list stored for a document are of the same update: in every state, hence
\* whenever semantic_tokens_full reads them and once every handler has
\* finished, a stored document has the tokens of its stored text, and the
\* answer of semantic_tokens_full is the one made from the stored text and
\* the tokens of that very text.
C16_SameSnapshot ==
    /\ \A uri \in Uris :
            (uri \in DOMAIN rope_map \/ uri \in DOMAIN semantic_token_map)
                => Lexed(rope_map, semantic_token_map, uri)
    /\ reply.kind \in {"SemanticTokens", "Panic"} =>
            reply = SemanticTokensResult(
                        rope_map, token_types_map,
                        [uri \in DOMAIN rope_map |-> parse(rope_map[uri]).semantic_tokens],
                        reply.uri)

\* semantic_tokens_full answered for a document while the handler of an
\* update of that document is in flight.
C16_Witness ==
    /\ reply.kind = "SemanticTokens"
    /\ reply.result.some
    /\ reply.result.value # <<>>
    /\ \E i \in DOMAIN tasks :
            /\ tasks[i].pc = "sending"
            /\ HasText(tasks[i].req)
            /\ tasks[i].req.uri = reply.uri

\* C17: no handler waits forever on a mutex of Backend and none panics with
\* one locked; every handler that was started completes.
C17_NoDeadlock ==
    /\ [](~blocked /\ reply.kind # "Panic")
    /\ \A i \in 1..MaxCalls : (i \in DOMAIN tasks) ~> (i \notin DOMAIN tasks)

\* One handler is suspended in its send while another, which will lock
\* publish_diagnostics_capable, waits for its first poll.
C17_Witness ==
    \E i, j \in DOMAIN tasks :
        /\ tasks[i].pc = "sending"
        /\ tasks[j].pc = "created"
        /\ lock("publish_diagnostics_capable") \in Range(locks_of(tasks[j].req))

\* What semantic_tokens_full would answer for each document.
Answers(ropes, types, tokens) ==
    [uri \in Uris |-> SemanticTokensResult(ropes, types, tokens, uri)]

\* C18: did_close leaves rope_map, semantic_token_map and token_types_map as
\* they are and sends the client an empty list of diagnostics for the
\* document, or nothing when the client cannot take diagnostics; what
\* semantic_tokens_full answers, for the closed document too, is what it
\* answered before the close.
C18_CloseKeepsDocument ==
    [][\A i \in 1..MaxCalls :
            (Polled(i) /\ tasks[i].req.method = "did_close") =>
                /\ rope_map' = rope_map
                /\ semantic_token_map' = semantic_token_map
                /\ token_types_map' = token_types_map
                /\ client_msg' = IF publish_diagnostics_capable
                                 THEN PublishDiagnostics(tasks[i].req.uri, <<>>)
                                 ELSE NoMsg
                /\ Answers(rope_map', token_types_map', semantic_token_map')
                        = Answers(rope_map, token_types_map, semantic_token_map)]_vars

\* A document that is stored, with tokens, has been closed.
C18_Witness ==
    /\ client_msg.method = "textDocument/publishDiagnostics"
    /\ client_msg.diagnostics = <<>>
    /\ Lexed(rope_map, semantic_token_map, client_msg.uri)
    /\ semantic_token_map[client_msg.uri] # <<>>

\* C19: a did_open or did_change of one document leaves every other
\* document as it is in rope_map and in semantic_token_map, and leaves
\* token_types_map as it is, so what semantic_tokens_full answers for any
\* other document does not change.
C19_UpdateTouchesOneDocument ==
    [][\A i \in 1..MaxCalls :
            (Polled(i) /\ tasks[i].req.method \in {"did_open", "did_change"}) =>
                /\ token_types_map' = token_types_map
                /\ \A uri \in Uris \ {tasks[i].req.uri} :
                        /\ uri \in DOMAIN rope_map' <=> uri \in DOMAIN rope_map
                        /\ uri \in DOMAIN rope_map => rope_map'[uri] = rope_map[uri]
                        /\ uri \in DOMAIN semantic_token_map'
                                <=> uri \in DOMAIN semantic_token_map
                        /\ uri \in DOMAIN semantic_token_map =>
                                semantic_token_map'[uri] = semantic_token_map[uri]
                        /\ SemanticTokensResult(rope_map', token_types_map',
                                                semantic_token_map', uri)
                                = SemanticTokensResult(rope_map, token_types_map,
                                                       semantic_token_map, uri)]_vars

\* Both documents are stored, with different texts.
C19_Witness ==
    /\ DOMAIN rope_map = Uris
    /\ DOMAIN semantic_token_map = Uris
    /\ \E uri1, uri2 \in Uris : rope_map[uri1] # rope_map[uri2]

\* C20: did_change makes the text of the last entry of content_changes the
\* stored text of the document, with the tokens of that text; with no entry
\* it changes neither map, sends the client nothing and returns.
C20_LastChangeApplied ==
    [][\A i \in 1..MaxCalls :
            (Polled(i) /\ tasks[i].req.method = "did_change") =>
                LET req == tasks[i].req
                    cc  == req.content_changes
                IN  IF cc = <<>>
                    THEN /\ rope_map' = rope_map
                         /\ semantic_token_map' = semantic_token_map
                         /\ client_msg' = NoMsg
                         /\ i \notin DOMAIN tasks'
                    ELSE /\ req.uri \in DOMAIN rope_map'
                         /\ rope_map'[req.uri] = from_str(cc[Len(cc)])
                         /\ req.uri \in DOMAIN semantic_token_map'
                         /\ semantic_token_map'[req.uri] = parse(cc[Len(cc)]).semantic_tokens]_vars

\* A did_change of two different entries has run: the second is stored.
C20_Witness ==
    \E i \in DOMAIN tasks :
        /\ tasks[i].pc = "sending"
        /\ tasks[i].req.method = "did_change"
        /\ Len(tasks[i].req.content_changes) = 2
        /\ rope_map[tasks[i].req.uri] = tasks[i].req.content_changes[2]
        /\ rope_map[tasks[i].req.uri] # tasks[i].req.content_changes[1]

====
